---- MODULE Spec2Model ----
(***************************************************************************)
(* Proxy pool (DecodoProxyManager / ProxyUsage), bounded-concurrency route *)
(* scheduler (processRoutesConcurrently) with its batch, and per-job retry *)
(* orchestrator (scrapeFlightsWithDecodo) of the Frontier scraper.         *)
(*                                                                         *)
(* Time is Date.now() in milliseconds.  A proxy endpoint (host:port) is a  *)
(* natural number; a proxy id "decodo-k" is the number k.  The fields      *)
(* lastUsed, useCount, disabledReason, lastTested, testResult and the      *)
(* credentials of ProxyUsage are written but never read by the operations  *)
(* modelled here and are left out of the proxy record.                     *)
(***************************************************************************)
EXTENDS Integers, Sequences, FiniteSets, TLC

VARIABLES
  now,            \* Date.now()
  ticks,          \* number of clock advances so far
  proxies,        \* DecodoProxyManager.proxies: sequence of ProxyUsage records
  currentIndex,   \* DecodoProxyManager.currentIndex (0-based rotation cursor)
  activeWorkers,  \* DecodoProxyManager.activeWorkers
  ret,            \* the result of getNextProxy when the last step called it (kind
                  \* "proxy" with the place idx of the proxy granted, "null" or
                  \* "throw"), kind "none" after any other step
  grants,         \* history: per endpoint, the times of the grants of the trailing minute
  blacklistedEver \* history: the endpoints that were blacklisted at some time

poolVars == <<now, ticks, proxies, currentIndex, activeWorkers, ret, grants,
              blacklistedEver>>

\* processRoutesConcurrently(routes, processRoute, maxConcurrent).  A job is
\* the call processRoute(routes[j - 1], j, total); a job stands for its promise
\* in inProgress.
VARIABLES
  routesLen,      \* routes.length
  maxConcurrent,  \* the parameter maxConcurrent
  routeIndex,     \* the local currentIndex: the number of routes taken so far
  inProgress,     \* the Set inProgress
  jobState,       \* per route: "queued", "delayed" (its setTimeout is pending),
                  \* "running" (processRoute called, not settled) or "settled"
  raceSet,        \* the promises given to the pending Promise.race
  delays,         \* per route taken so far, in order: the delay (ms) given
                  \* to startRoute
  schedPc,        \* where the async function is: "start" (not called yet),
                  \* "race" (awaiting Promise.race), "resume" (the race is
                  \* settled, the continuation is queued) or "resolved"
  stats,          \* results.stats of the batch (scrapeRoutesByOrigin,
                  \* scrapeAllRoutes) that runs the scheduler
  sendFailed,     \* history: whether client.send threw while the progress
                  \* event of the last settled route was published
  calls,          \* per startRoute call so far, in order: the arguments it
                  \* was given (route: the position in routes, routeIndex,
                  \* total) and times, the number of calls of processRoute
                  \* with them
  elapsed,        \* the time (ms) since processRoutesConcurrently was called
  batchResult     \* what the batch has returned: kind "pending" before it
                  \* returns, then "returned" with results.success and the
                  \* stats as they are at the return

schedVars == <<routesLen, maxConcurrent, routeIndex, inProgress, jobState,
               raceSet, delays, schedPc, stats, sendFailed, calls, elapsed,
               batchResult>>

\* scrapeFlightsWithDecodo(origin, destination, date): one job of the
\* orchestrator.  consecutiveBlocks is only logged and is left out.
VARIABLES
  orchPc,         \* "idle" (not called), "loop" (at the test of the while
                  \* loop), "scraping" (awaiting scrapeFlightsPlaywright),
                  \* "waiting" (in waitForAvailableProxy) or "done" (returned)
  attempt,        \* the local attempt
  lastError,      \* lastError.message: "none" (null), "BLOCKED_BY_PERIMETERX"
                  \* or "other"
  triedProxies,   \* the Set triedProxies (proxy ids)
  startTime,      \* the local startTime
  waitStart,      \* the local startTime of waitForAvailableProxy
  jobProxy,       \* proxy.proxyId of the attempt under way, 0 when none
  jobEndpoint,    \* history: the endpoint (host:port) of the proxy object
                  \* getNextProxy returned to a caller that holds it
  orchResult,     \* the value returned, kind "pending" before the return;
                  \* via tells where the loop was left
  held,           \* history: per proxy id, the grants the job got and has not
                  \* released
  scrapeCalls,    \* history: the number of calls of scrapeFlightsPlaywright
  outcomesSeen,   \* history: how the calls of scrapeFlightsPlaywright ended
  lastScrape,     \* how scrapeFlightsPlaywright ended in the last step,
                  \* "none" when the last step was no end of a scrape
  lastRelease     \* the releaseProxy call of the last step, if any

jobVars == <<orchPc, attempt, lastError, triedProxies, startTime, waitStart,
             jobProxy, jobEndpoint,
             orchResult, held, scrapeCalls, outcomesSeen, lastScrape,
             lastRelease>>

----------------------------------------------------------------------------
(* Program constants *)

\* constructor parameter maxWorkers (default 2)
maxWorkers == 2

\* constructor parameter maxUsesPerMinute (DECODO_MAX_USES_PER_MINUTE, from 1
\* to 5, default 2), at the setting 1 the README advises against blocking
maxUsesPerMinute == 1

\* scraper.js: MAX_RETRIES (SCRAPER_MAX_RETRIES, default 3)
MAX_RETRIES == 3
\* scrapeFlightsWithDecodo: totalProxies and maxWaitTime
totalProxies == 10
maxWaitTime == 120000
\* waitForAvailableProxy(30000), and its poll every 500 ms
WaitTimeout == 30000
PollInterval == 500

\* the port parseInt gives for a text that is no number (0 is no port)
NaN == 0

\* this.cooldownUntil = null (null and 0 are both falsy in `cooldownUntil && ...`)
NoCooldown == 0

\* Math.floor(Math.random() * 4000): from MinDraw to MaxDraw
MinDraw == 0
MaxDraw == 3999

OneMinute == 60000
TwentyMinutes == 20 * 60 * 1000
TwoHours == 2 * 60 * 60 * 1000
OneDay == 24 * 60 * 60 * 1000

----------------------------------------------------------------------------
(* Bounds of the model *)

\* clock advances explored
MaxTicks == 1
\* cap of the failedRequests counter
MaxCount == 1
\* cap of the length of perimeterXBlocks
MaxBlocks == 6
\* cap of the length of recentUses, of the totalRequests counter and of the
\* grant history of an endpoint: room for one use beyond the rate limit
MaxRecent == maxUsesPerMinute + 1

\* the clock advances by one of these amounts
Steps == {OneMinute, TwentyMinutes}

\* the endpoints (host:port) of the proxy list given to the constructor
InitialProxies == <<1, 2>>
\* a proxy list of three endpoints, one more than maxWorkers
ThreeProxies == <<1, 2, 3>>
\* the proxy lists given to updateProxies when the pool is reloaded
ReloadLists == {<<1, 2>>}
\* the proxy lists merged into the pool: "host:2" and "host:3", and an entry
\* "host:abc", whose port does not parse
MergeLists == {<<2, 3>>, <<NaN>>}
\* the proxy ids callers pass to releaseProxy (decodo-1, and decodo-4, the
\* id of no proxy) and to setProxyEnabled and testProxy
CallerIds == {1, 4}
AdminIds == {1}

\* the durations of a call of scrapeFlightsPlaywright explored
FastScrape == 100
SlowScrape == 45000
ScrapeTimes == {FastScrape, SlowScrape}

\* routes.length of the batches explored
MaxRoutes == 4
\* maxConcurrent of the batches explored
MaxConcurrent == 3
\* cap of the number of proxies in the pool
MaxPool == 4
\* clock advances explored while one caller at a time uses the pool
MaxSerialTicks == 3

----------------------------------------------------------------------------
(* ProxyUsage *)

ProxyUsage(proxyId, endpoint) ==
  [ proxyId          |-> proxyId,
    endpoint         |-> endpoint,
    recentUses       |-> <<>>,
    totalRequests    |-> 0,
    failedRequests   |-> 0,
    disabled         |-> FALSE,
    perimeterXBlocks |-> <<>>,
    cooldownUntil    |-> NoCooldown,
    cooldownLevel    |-> 0,
    blacklisted      |-> FALSE ]

\* t > oneMinuteAgo
Within(s, t, window) == SelectSeq(s, LAMBDA u : u > t - window)

\* canUse: the verdict and the proxy as canUse leaves it (recentUses pruned)
canUse(p, t) ==
  IF p.blacklisted THEN [ok |-> FALSE, proxy |-> p]
  ELSE IF p.cooldownUntil # NoCooldown /\ t < p.cooldownUntil
    THEN [ok |-> FALSE, proxy |-> p]
  ELSE LET pruned == Within(p.recentUses, t, OneMinute)
       IN  [ok |-> Len(pruned) < maxUsesPerMinute,
            proxy |-> [p EXCEPT !.recentUses = pruned]]

markUsed(p, t) ==
  [p EXCEPT !.recentUses = Append(@, t), !.totalRequests = @ + 1]

\* markFailed counting the failure as a request as well
markFailedAsRequest(p) ==
  [p EXCEPT !.failedRequests = @ + 1, !.totalRequests = @ + 1]

markFailed(p) == [p EXCEPT !.failedRequests = @ + 1]

\* Escalate with the blacklist reached one block late (> 5 for >= 5)
EscalateLate(p, recentBlocks, t) ==
  IF recentBlocks = 1 THEN
    [p EXCEPT !.cooldownLevel = 0, !.cooldownUntil = NoCooldown]
  ELSE IF recentBlocks = 2 THEN
    [p EXCEPT !.cooldownLevel = 1, !.cooldownUntil = t + TwentyMinutes]
  ELSE IF recentBlocks = 3 THEN
    [p EXCEPT !.cooldownLevel = 2, !.cooldownUntil = t + TwoHours]
  ELSE IF recentBlocks = 4 THEN
    [p EXCEPT !.cooldownLevel = 3, !.cooldownUntil = t + OneDay]
  ELSE IF recentBlocks > 5 THEN
    [p EXCEPT !.cooldownLevel = 4, !.blacklisted = TRUE,
              !.cooldownUntil = NoCooldown]
  ELSE p

\* Escalate with a first cooldown of one minute, shorter than the window
\* of the block history
EscalateShortCooldown(p, recentBlocks, t) ==
  IF recentBlocks = 1 THEN
    [p EXCEPT !.cooldownLevel = 0, !.cooldownUntil = NoCooldown]
  ELSE IF recentBlocks = 2 THEN
    [p EXCEPT !.cooldownLevel = 1, !.cooldownUntil = t + OneMinute]
  ELSE IF recentBlocks = 3 THEN
    [p EXCEPT !.cooldownLevel = 2, !.cooldownUntil = t + TwoHours]
  ELSE IF recentBlocks = 4 THEN
    [p EXCEPT !.cooldownLevel = 3, !.cooldownUntil = t + OneDay]
  ELSE IF recentBlocks >= 5 THEN
    [p EXCEPT !.cooldownLevel = 4, !.blacklisted = TRUE,
              !.cooldownUntil = NoCooldown]
  ELSE p

\* the escalation of recordPerimeterXBlock for recentBlocks blocks in the window
Escalate(p, recentBlocks, t) ==
  IF recentBlocks = 1 THEN
    [p EXCEPT !.cooldownLevel = 0, !.cooldownUntil = NoCooldown]
  ELSE IF recentBlocks = 2 THEN
    [p EXCEPT !.cooldownLevel = 1, !.cooldownUntil = t + TwentyMinutes]
  ELSE IF recentBlocks = 3 THEN
    [p EXCEPT !.cooldownLevel = 2, !.cooldownUntil = t + TwoHours]
  ELSE IF recentBlocks = 4 THEN
    [p EXCEPT !.cooldownLevel = 3, !.cooldownUntil = t + OneDay]
  ELSE IF recentBlocks >= 5 THEN
    [p EXCEPT !.cooldownLevel = 4, !.blacklisted = TRUE,
              !.cooldownUntil = NoCooldown]
  ELSE p

\* BlocksAfter without the prune: the lifetime history
BlocksAfterUnpruned(p, t) == Append(p.perimeterXBlocks, t)

\* the block history after the push and the prune of recordPerimeterXBlock
BlocksAfter(p, t) == Within(Append(p.perimeterXBlocks, t), t, TwentyMinutes)

recordPerimeterXBlock(p, t) ==
  LET blocks == BlocksAfter(p, t)
  IN  Escalate([p EXCEPT !.perimeterXBlocks = blocks], Len(blocks), t)

\* recordSuccess that also enables the proxy
recordSuccessEnabling(p, t) ==
  LET reset ==
        IF (Len(p.perimeterXBlocks) > 0 \/ p.cooldownLevel > 0)
           /\ p.cooldownLevel < 4
        THEN [p EXCEPT !.perimeterXBlocks = <<>>, !.cooldownLevel = 0,
                       !.cooldownUntil = NoCooldown]
        ELSE p
  IN  markUsed([reset EXCEPT !.disabled = FALSE], t)

recordSuccess(p, t) ==
  LET reset ==
        IF (Len(p.perimeterXBlocks) > 0 \/ p.cooldownLevel > 0)
           /\ p.cooldownLevel < 4
        THEN [p EXCEPT !.perimeterXBlocks = <<>>, !.cooldownLevel = 0,
                       !.cooldownUntil = NoCooldown]
        ELSE p
  IN  markUsed(reset, t)

----------------------------------------------------------------------------
(* DecodoProxyManager *)

NoRet == [kind |-> "none", idx |-> 0]

\* the constructor's proxyList.map: ids decodo-1 .. decodo-n
Construct(list) == [i \in 1..Len(list) |-> ProxyUsage(i, list[i])]

\* Skipped without the test of proxy.disabled
SkippedIgnoringDisabled(proxy, t) ==
  \/ proxy.blacklisted
  \/ (proxy.cooldownUntil # NoCooldown /\ t < proxy.cooldownUntil)

\* the three skips of the scan loop of getNextProxy
Skipped(proxy, t) ==
  \/ proxy.disabled
  \/ proxy.blacklisted
  \/ (proxy.cooldownUntil # NoCooldown /\ t < proxy.cooldownUntil)

\* the scan loop of getNextProxy from cursor idx after `attempts` candidates;
\* proxies[idx] of a cursor outside the list is undefined and reading
\* proxy.disabled throws, after the cursor was advanced and saved
RECURSIVE Scan(_, _, _, _)
Scan(ps, idx, attempts, t) ==
  IF attempts >= Len(ps) THEN
    [proxies |-> ps, currentIndex |-> idx, ret |-> [kind |-> "null", idx |-> 0]]
  ELSE IF idx >= Len(ps) THEN
    [proxies |-> ps, currentIndex |-> (idx + 1) % Len(ps),
     ret |-> [kind |-> "throw", idx |-> 0]]
  ELSE
    LET proxy == ps[idx + 1]
        next  == (idx + 1) % Len(ps)
    IN  IF Skipped(proxy, t) THEN Scan(ps, next, attempts + 1, t)
        ELSE LET r == canUse(proxy, t)
             IN  IF r.ok THEN
                   [proxies |-> [ps EXCEPT ![idx + 1] = markUsed(r.proxy, t)],
                    currentIndex |-> next,
                    ret |-> [kind |-> "proxy", idx |-> idx + 1]]
                 ELSE Scan([ps EXCEPT ![idx + 1] = r.proxy], next,
                           attempts + 1, t)

\* getNextProxy without the worker-cap test
getNextProxyUncapped(ps, idx, active, t) ==
  LET s == Scan(ps, idx, 0, t)
  IN  [proxies |-> s.proxies, currentIndex |-> s.currentIndex,
       activeWorkers |-> IF s.ret.kind = "proxy" THEN active + 1 ELSE active,
       ret |-> s.ret]

\* AtWorkerCap with > for >=
AtWorkerCapOffByOne(active) == active > maxWorkers

\* the worker-cap test of getNextProxy
AtWorkerCap(active) == active >= maxWorkers

getNextProxy(ps, idx, active, t) ==
  IF AtWorkerCap(active) THEN
    [proxies |-> ps, currentIndex |-> idx, activeWorkers |-> active,
     ret |-> [kind |-> "null", idx |-> 0]]
  ELSE LET s == Scan(ps, idx, 0, t)
       IN  [proxies |-> s.proxies, currentIndex |-> s.currentIndex,
            activeWorkers |-> IF s.ret.kind = "proxy" THEN active + 1 ELSE active,
            ret |-> s.ret]

\* this.proxies.find(p => p.proxyId === proxyId): first position, 0 if none
Find(ps, proxyId) ==
  IF \E i \in 1..Len(ps) : ps[i].proxyId = proxyId
  THEN CHOOSE i \in 1..Len(ps) :
         /\ ps[i].proxyId = proxyId
         /\ \A j \in 1..(i - 1) : ps[j].proxyId # proxyId
  ELSE 0

\* the decrement of releaseProxy
Decrement(active) == IF active > 0 THEN active - 1 ELSE active

\* the outcome branch of releaseProxy on the proxy found
Outcome(p, outcome, t) ==
  IF outcome = "antiBotBlock" THEN markFailed(recordPerimeterXBlock(p, t))
  ELSE IF outcome = "success" THEN recordSuccess(p, t)
  ELSE markFailed(p)

releaseProxy(ps, proxyId, outcome, t) ==
  LET i == Find(ps, proxyId)
  IN  IF i = 0 THEN ps ELSE [ps EXCEPT ![i] = Outcome(ps[i], outcome, t)]

resetStatistics(ps) ==
  [i \in 1..Len(ps) |->
     [ps[i] EXCEPT !.recentUses = <<>>, !.totalRequests = 0,
                   !.failedRequests = 0]]

\* setProxyEnabled that also ends the cooldown of a proxy it enables
setProxyEnabledFresh(ps, proxyId, enabled) ==
  LET i == Find(ps, proxyId)
  IN  IF i = 0 THEN ps
      ELSE IF enabled
      THEN [ps EXCEPT ![i].disabled = FALSE, ![i].cooldownUntil = NoCooldown,
                      ![i].cooldownLevel = 0]
      ELSE [ps EXCEPT ![i].disabled = TRUE]

\* setProxyEnabled on the proxy found: proxy.disabled = !enabled
setProxyEnabled(ps, proxyId, enabled) ==
  LET i == Find(ps, proxyId)
  IN  IF i = 0 THEN ps ELSE [ps EXCEPT ![i].disabled = ~enabled]

\* the end of testProxy on the proxy found: a passing probe enables the
\* proxy, a failing one (the catch branch) disables it
testProxy(ps, proxyId, passed) ==
  LET i == Find(ps, proxyId)
  IN  IF i = 0 THEN ps ELSE [ps EXCEPT ![i].disabled = ~passed]

\* p.host === host && p.port === port: NaN is not equal to itself
SameEndpoint(a, b) == a = b /\ a # NaN

\* this.proxies.find(p => p.host === host && p.port === port)
FindEndpoint(ps, endpoint) ==
  IF \E i \in 1..Len(ps) : SameEndpoint(ps[i].endpoint, endpoint)
  THEN CHOOSE i \in 1..Len(ps) :
         /\ SameEndpoint(ps[i].endpoint, endpoint)
         /\ \A j \in 1..(i - 1) : ~SameEndpoint(ps[j].endpoint, endpoint)
  ELSE 0

\* proxyList.map of updateProxies: the existing proxy when merging, else a
\* new ProxyUsage with the id of its place in the list
NewProxies(ps, list, replace) ==
  [i \in 1..Len(list) |->
     IF FindEndpoint(ps, list[i]) # 0 /\ ~replace
     THEN ps[FindEndpoint(ps, list[i])]
     ELSE ProxyUsage(i, list[i])]

\* newProxies.forEach of the merge branch, from entry k on
RECURSIVE PushNew(_, _, _)
PushNew(ps, news, k) ==
  IF k > Len(news) THEN ps
  ELSE IF FindEndpoint(ps, news[k].endpoint) # 0 THEN PushNew(ps, news, k + 1)
  ELSE PushNew(Append(ps, news[k]), news, k + 1)

updateProxies(ps, idx, list, replace) ==
  LET news == NewProxies(ps, list, replace)
  IN  IF replace THEN [proxies |-> news, currentIndex |-> 0]
      ELSE [proxies |-> PushNew(ps, news, 1), currentIndex |-> idx]

----------------------------------------------------------------------------
(* Pool operations as steps *)

Outcomes == {"success", "genericFailure", "antiBotBlock"}

Capped(ps) ==
  \A i \in 1..Len(ps) :
    /\ ps[i].totalRequests <= MaxRecent
    /\ ps[i].failedRequests <= MaxCount
    /\ Len(ps[i].recentUses) <= MaxRecent
    /\ Len(ps[i].perimeterXBlocks) <= MaxBlocks

Endpoints == {InitialProxies[i] : i \in 1..Len(InitialProxies)}
               \cup UNION {{l[i] : i \in 1..Len(l)} : l \in ReloadLists}

\* the grant history keeps the grants of the trailing minute
PruneGrants(g, t) == [e \in DOMAIN g |-> Within(g[e], t, OneMinute)]

BlacklistedEndpoints(ps) ==
  {ps[i].endpoint : i \in {j \in 1..Len(ps) : ps[j].blacklisted}}

\* Date.now() advances, at most `limit` times
Advance(limit) ==
  /\ ticks < limit
  /\ \E d \in Steps :
       /\ now' = now + d
       /\ grants' = PruneGrants(grants, now + d)
  /\ ticks' = ticks + 1
  /\ ret' = NoRet
  /\ UNCHANGED <<proxies, currentIndex, activeWorkers, blacklistedEver>>
  /\ UNCHANGED <<schedVars, jobVars>>

Tick == Advance(MaxTicks)

Acquire ==
  LET r == getNextProxy(proxies, currentIndex, activeWorkers, now)
  IN  /\ Capped(r.proxies)
      /\ proxies' = r.proxies
      /\ currentIndex' = r.currentIndex
      /\ activeWorkers' = r.activeWorkers
      /\ ret' = r.ret
      /\ grants' = IF r.ret.kind = "proxy"
                   THEN [grants EXCEPT ![proxies[r.ret.idx].endpoint] = Append(@, now)]
                   ELSE grants
      /\ \A e \in Endpoints : Len(grants'[e]) <= MaxRecent
      /\ UNCHANGED <<now, ticks, blacklistedEver>>
      /\ UNCHANGED <<schedVars, jobVars>>

Release ==
  \E proxyId \in CallerIds, outcome \in Outcomes :
    LET ps == releaseProxy(proxies, proxyId, outcome, now)
    IN  /\ Capped(ps)
        /\ proxies' = ps
        /\ activeWorkers' = Decrement(activeWorkers)
        /\ ret' = NoRet
        /\ blacklistedEver' = blacklistedEver \cup BlacklistedEndpoints(ps)
        /\ UNCHANGED <<now, ticks, currentIndex, grants>>
        /\ UNCHANGED <<schedVars, jobVars>>

ResetStatistics ==
  /\ proxies' = resetStatistics(proxies)
  /\ ret' = NoRet
  /\ UNCHANGED <<now, ticks, currentIndex, activeWorkers, grants, blacklistedEver>>
  /\ UNCHANGED <<schedVars, jobVars>>

SetEnabled ==
  \E proxyId \in AdminIds, enabled \in BOOLEAN :
    /\ proxies' = setProxyEnabled(proxies, proxyId, enabled)
    /\ ret' = NoRet
    /\ UNCHANGED <<now, ticks, currentIndex, activeWorkers, grants, blacklistedEver>>
    /\ UNCHANGED <<schedVars, jobVars>>

TestProxy ==
  \E proxyId \in AdminIds, passed \in BOOLEAN :
    /\ proxies' = testProxy(proxies, proxyId, passed)
    /\ ret' = NoRet
    /\ UNCHANGED <<now, ticks, currentIndex, activeWorkers, grants, blacklistedEver>>
    /\ UNCHANGED <<schedVars, jobVars>>

UpdateWith(lists, modes) ==
  \E list \in lists, replace \in modes :
    LET u == updateProxies(proxies, currentIndex, list, replace)
    IN  /\ Len(u.proxies) <= MaxPool
        /\ proxies' = u.proxies
        /\ currentIndex' = u.currentIndex
        /\ ret' = NoRet
        /\ UNCHANGED <<now, ticks, activeWorkers, grants, blacklistedEver>>
        /\ UNCHANGED <<schedVars, jobVars>>

UpdateProxies == UpdateWith(ReloadLists, BOOLEAN)

\* updateProxies(list) with replace left at its default, false
Merge == UpdateWith(MergeLists, {FALSE})

PoolInit ==
  /\ now = 1
  /\ ticks = 0
  /\ proxies = Construct(InitialProxies)
  /\ currentIndex \in 0..Len(InitialProxies)
  /\ activeWorkers = 0
  /\ ret = NoRet
  /\ grants = [e \in Endpoints |-> <<>>]
  /\ blacklistedEver = {}

NoRelease == [proxyId |-> 0, outcome |-> "none"]

\* no job of the orchestrator
JobIdle ==
  /\ orchPc = "idle"
  /\ attempt = 0
  /\ lastError = "none"
  /\ triedProxies = {}
  /\ startTime = 0
  /\ waitStart = 0
  /\ jobProxy = 0
  /\ jobEndpoint = 0
  /\ orchResult = [kind |-> "pending"]
  /\ held = [id \in 1..Len(InitialProxies) |-> 0]
  /\ scrapeCalls = 0
  /\ outcomesSeen = {}
  /\ lastScrape = "none"
  /\ lastRelease = NoRelease

----------------------------------------------------------------------------
(* processRoutesConcurrently *)

\* st is the record of the locals [routeIndex, inProgress, jobState].
\* startRoute with delay 0: processRoute is called and its promise is added
StartNow(st, j) ==
  [st EXCEPT !.jobState[j] = "running", !.inProgress = @ \cup {j},
             !.calls[j].times = @ + 1]

\* startRoute with delay > 0: only the timer is set; processRoute is called
\* and the promise is added when the timer fires
StartLater(st, j) == [st EXCEPT !.jobState[j] = "delayed"]

\* TakeRoute with routeIndex read before currentIndex is incremented
TakeRouteIndexBefore(st, delay) ==
  LET route == st.routeIndex
      j == st.routeIndex + 1
      moved == [st EXCEPT !.routeIndex = @ + 1]
      taken == [moved EXCEPT
                  !.delays = Append(@, delay),
                  !.calls = Append(@, [route |-> route,
                                       routeIndex |-> st.routeIndex,
                                       total |-> routesLen, times |-> 0])]
  IN  IF delay > 0 THEN StartLater(taken, j) ELSE StartNow(taken, j)

\* startRoute(routes[currentIndex++], currentIndex, routes.length, delay)
TakeRoute(st, delay) ==
  LET route == st.routeIndex
      j == st.routeIndex + 1
      moved == [st EXCEPT !.routeIndex = @ + 1]
      taken == [moved EXCEPT
                  !.delays = Append(@, delay),
                  !.calls = Append(@, [route |-> route,
                                       routeIndex |-> moved.routeIndex,
                                       total |-> routesLen, times |-> 0])]
  IN  IF delay > 0 THEN StartLater(taken, j) ELSE StartNow(taken, j)

Min(a, b) == IF a <= b THEN a ELSE b

\* the values of Math.floor(Math.random() * 4000) the model draws
RandomDraws == {MinDraw, MaxDraw}

\* StartDelay with the draw rounded up instead of down
StartDelayRoundedUp(i, draw) == IF i = 0 THEN 0 ELSE (draw + 1) + 1000

\* the delay of the i-th route (from 0) of the initial batch, draw being
\* Math.floor(Math.random() * 4000)
StartDelay(i, draw) == IF i = 0 THEN 0 ELSE draw + 1000

\* the initial batch: the first route starts at once, the others of the
\* first min(maxConcurrent, routes.length) after a random delay; draws[i] is
\* the draw for the i-th route
RECURSIVE InitialBatch(_, _, _, _)
InitialBatch(st, i, initialCount, draws) ==
  IF i < initialCount
  THEN InitialBatch(TakeRoute(st, StartDelay(i, IF i = 0 THEN MinDraw ELSE draws[i])),
                    i + 1, initialCount, draws)
  ELSE st

\* the inner loop: start routes at once while there is a free slot
RECURSIVE Refill(_, _, _)
Refill(st, limit, total) ==
  IF Cardinality(st.inProgress) < limit /\ st.routeIndex < total
  THEN Refill(TakeRoute(st, 0), limit, total)
  ELSE st

\* the outer loop from its test up to the next await: it awaits the race of
\* the promises now in inProgress, or leaves the loop with inProgress empty,
\* which makes the final Promise.all a no-op, and the function returns
RECURSIVE MainLoop(_, _, _)
MainLoop(st, limit, total) ==
  IF st.routeIndex < total \/ st.inProgress # {}
  THEN IF st.inProgress # {}
       THEN [st |-> st, pc |-> "race", raceSet |-> st.inProgress]
       ELSE MainLoop(Refill(st, limit, total), limit, total)
  ELSE [st |-> st, pc |-> "resolved", raceSet |-> {}]

Locals == [routeIndex |-> routeIndex, inProgress |-> inProgress,
           jobState |-> jobState, delays |-> delays, calls |-> calls]

Continue(r) ==
  /\ routeIndex' = r.st.routeIndex
  /\ inProgress' = r.st.inProgress
  /\ jobState' = r.st.jobState
  /\ delays' = r.st.delays
  /\ calls' = r.st.calls
  /\ raceSet' = r.raceSet
  /\ schedPc' = r.pc

\* the call, up to its first await.  After the initial batch inProgress holds
\* the first promise whenever routes is not empty, so initialBatchStarted is
\* set and the wait for a first start is skipped.
SchedStart ==
  /\ schedPc = "start"
  /\ \E draws \in [1..(Min(maxConcurrent, routesLen) - 1) -> RandomDraws] :
       Continue(MainLoop(InitialBatch(Locals, 0,
                                      Min(maxConcurrent, routesLen), draws),
                         maxConcurrent, routesLen))
  /\ UNCHANGED <<routesLen, maxConcurrent, stats, sendFailed, elapsed,
                 batchResult>>
  /\ UNCHANGED <<poolVars, jobVars>>

\* the timers are set in the same turn: the one with the shorter delay
\* fires first, and of two with the same delay the one set first
FiresFirst(j) ==
  \A k \in 1..routeIndex :
    jobState[k] = "delayed" /\ k # j =>
      \/ delays[j] < delays[k]
      \/ delays[j] = delays[k] /\ j < k

\* the setTimeout callback of a delayed route.  A timer callback is a task:
\* it runs when no promise continuation is queued.
TimerFire(j) ==
  /\ jobState[j] = "delayed"
  /\ FiresFirst(j)
  /\ elapsed >= delays[j]
  /\ schedPc # "resume"
  /\ jobState' = [jobState EXCEPT ![j] = "running"]
  /\ inProgress' = inProgress \cup {j}
  /\ calls' = [calls EXCEPT ![j].times = @ + 1]
  /\ UNCHANGED <<routesLen, maxConcurrent, routeIndex, raceSet, schedPc>>
  /\ UNCHANGED <<delays, stats, sendFailed, elapsed, batchResult>>
  /\ UNCHANGED <<poolVars, jobVars>>

\* the instants the model tells apart: the call, and the moments the timers
\* of the initial batch are due
Instants == {0} \cup {StartDelay(1, draw) : draw \in RandomDraws}

\* time passes up to the instant t while the function awaits: a timer that
\* is due before t fires before t
Elapse(t) ==
  /\ schedPc \in {"race", "resolved"}
  /\ t > elapsed
  /\ \A j \in 1..routeIndex : jobState[j] = "delayed" => delays[j] >= t
  /\ elapsed' = t
  /\ UNCHANGED <<routesLen, maxConcurrent, routeIndex, inProgress, jobState,
                 raceSet, delays, schedPc, stats, sendFailed, calls,
                 batchResult>>
  /\ UNCHANGED <<poolVars, jobVars>>

\* how a job ends: a cache hit, a live scrape with result.success, or a
\* failure (result.success false, or an error caught by processRoute)
JobOutcomes == {"cached", "scraped", "failed"}

\* broadcast with the error of client.send not caught
broadcastUncaught(sendFails) == sendFails

\* global.broadcast(data): whether the call throws.  The error of a
\* client.send is caught and logged per client.
broadcast(sendFails) == FALSE

\* the counters processRoute increments when it ends: those of its outcome
\* inside the try, then the progress event is published; an error thrown
\* there is caught by the catch of processRoute, which counts a failure
processRoute(st, outcome, sendFails) ==
  LET counted == [st EXCEPT ![outcome] = @ + 1, !.processed = @ + 1]
  IN  IF broadcast(sendFails)
      THEN [counted EXCEPT !.failed = @ + 1, !.processed = @ + 1]
      ELSE counted

\* a finally callback that leaves the promise in inProgress
finallyKeep(set, j) == set

\* the finally callback of the promise of job j: inProgress.delete(promise)
finallyDelete(set, j) == set \ {j}

\* processRoute(j) ends and its promise settles (fulfilled: processRoute
\* catches its errors): the finally callback deletes the promise, and a
\* pending race that holds the promise settles
Settle(j) ==
  /\ jobState[j] = "running"
  /\ \E outcome \in JobOutcomes, sendFails \in BOOLEAN :
       /\ stats' = processRoute(stats, outcome, sendFails)
       /\ sendFailed' = sendFails
  /\ jobState' = [jobState EXCEPT ![j] = "settled"]
  /\ inProgress' = finallyDelete(inProgress, j)
  /\ schedPc' = IF schedPc = "race" /\ j \in raceSet THEN "resume" ELSE schedPc
  /\ UNCHANGED <<routesLen, maxConcurrent, routeIndex, raceSet, delays,
                 calls, elapsed, batchResult>>
  /\ UNCHANGED <<poolVars, jobVars>>

\* the continuation of `await Promise.race(...)`
Resume ==
  /\ schedPc = "resume"
  /\ Continue(MainLoop(Refill(Locals, maxConcurrent, routesLen),
                       maxConcurrent, routesLen))
  /\ UNCHANGED <<routesLen, maxConcurrent, stats, sendFailed, elapsed,
                 batchResult>>
  /\ UNCHANGED <<poolVars, jobVars>>

NoResult == [kind |-> "pending"]

\* the batch after `await processRoutesConcurrently(...)`: it sets
\* results.success and returns results.  A batch with no routes returns an
\* error before it builds results, without running the scheduler.
BatchReturn ==
  /\ schedPc = "resolved"
  /\ routesLen > 0
  /\ batchResult = NoResult
  /\ batchResult' = [kind |-> "returned",
                     success |-> stats.failed < stats.total,
                     stats |-> stats]
  /\ UNCHANGED <<routesLen, maxConcurrent, routeIndex, inProgress, jobState,
                 raceSet, delays, schedPc, stats, sendFailed, calls, elapsed>>
  /\ UNCHANGED <<poolVars, jobVars>>

\* the scheduler before any call
SchedIdle ==
  /\ routeIndex = 0
  /\ inProgress = {}
  /\ jobState = [j \in 1..routesLen |-> "queued"]
  /\ raceSet = {}
  /\ delays = <<>>
  /\ schedPc = "start"
  /\ stats = [total |-> routesLen, cached |-> 0, scraped |-> 0, failed |-> 0,
              processed |-> 0]
  /\ sendFailed = FALSE
  /\ calls = <<>>
  /\ elapsed = 0
  /\ batchResult = NoResult

\* a batch about to be scheduled, with the pool as constructed
SchedInit ==
  /\ routesLen \in 0..MaxRoutes
  /\ maxConcurrent \in 1..MaxConcurrent
  /\ SchedIdle
  /\ PoolInit
  /\ currentIndex = 0
  /\ JobIdle

----------------------------------------------------------------------------
(* scrapeFlightsWithDecodo *)

Blocked == "BLOCKED_BY_PERIMETERX"

\* how a call of scrapeFlightsPlaywright ends: it returns flights, or throws
\* the anti-bot marker or another error
ScrapeOutcomes == {"success", Blocked, "other"}

\* the test of the while loop
LoopCondition(att, err, tried) ==
  \/ att < MAX_RETRIES
  \/ (err = Blocked /\ Cardinality(tried) < totalProxies)

\* CeilingExceeded with the operands of the difference swapped
CeilingOperandsSwapped(t, startT) == startT - t > maxWaitTime

\* the wall-clock test at the top of the loop body
CeilingExceeded(t, startT) == t - startT > maxWaitTime

\* ReleaseOutcome with every error taken for the anti-bot marker
ReleaseOutcomeAllBlocks(outcome) ==
  IF outcome = "success" THEN "success" ELSE "antiBotBlock"

\* the releaseProxy call after a scrape: (proxyId, true, false) on success,
\* (proxyId, false, isPerimeterX) in the catch
ReleaseOutcome(outcome) ==
  IF outcome = "success" THEN "success"
  ELSE IF outcome = Blocked THEN "antiBotBlock"
  ELSE "genericFailure"

\* AfterScrape without the return on success
AfterScrapeNoReturn(outcome, att) ==
  IF outcome = "success" \/ outcome = Blocked THEN "loop"
  ELSE IF att >= MAX_RETRIES THEN "done"
  ELSE "loop"

\* where the job goes after a scrape: it returns on success, continues on
\* an anti-bot block, and on another error breaks once attempt >= MAX_RETRIES
AfterScrape(outcome, att) ==
  IF outcome = "success" THEN "done"
  ELSE IF outcome = Blocked THEN "loop"
  ELSE IF att >= MAX_RETRIES THEN "done"
  ELSE "loop"

\* the object returned after the loop
Failure(err, att, tried, via) ==
  [kind |-> "failure",
   error |-> IF err = "none" THEN "Unknown error" ELSE err,
   attempts |-> att, proxiesTried |-> Cardinality(tried), via |-> via]

GrantAt(g, ps, i, t) ==
  PruneGrants([g EXCEPT ![ps[i].endpoint] = Append(@, t)], t)

\* the loop is left without a call of the pool
LeaveLoop(via) ==
  /\ orchPc' = "done"
  /\ orchResult' = Failure(lastError, attempt, triedProxies, via)
  /\ ret' = NoRet
  /\ UNCHANGED <<now, ticks, proxies, currentIndex, activeWorkers, grants,
                 blacklistedEver>>
  /\ UNCHANGED <<attempt, lastError, triedProxies, startTime, jobProxy, held,
                 scrapeCalls, outcomesSeen, waitStart>>

\* getNextProxy returned the proxy at place ret.idx: the scrape is started
StartScrape(r) ==
  LET id == proxies[r.ret.idx].proxyId
  IN  /\ orchPc' = "scraping"
      /\ attempt' = attempt + 1
      /\ triedProxies' = triedProxies \cup {id}
      /\ jobProxy' = id
      /\ held' = [held EXCEPT ![id] = @ + 1]
      /\ scrapeCalls' = scrapeCalls + 1
      /\ proxies' = r.proxies
      /\ currentIndex' = r.currentIndex
      /\ activeWorkers' = r.activeWorkers
      /\ ret' = r.ret
      /\ grants' = GrantAt(grants, proxies, r.ret.idx, now)
      /\ UNCHANGED <<now, ticks, blacklistedEver, lastError, startTime,
                     orchResult, outcomesSeen>>

\* getNextProxy returned null: waitForAvailableProxy(30000) is called
StartWait(r) ==
  /\ orchPc' = "waiting"
  /\ waitStart' = now
  /\ attempt' = attempt + 1
  /\ proxies' = r.proxies
  /\ currentIndex' = r.currentIndex
  /\ activeWorkers' = r.activeWorkers
  /\ ret' = r.ret
  /\ UNCHANGED <<now, ticks, grants, blacklistedEver, lastError, triedProxies,
                 startTime, jobProxy, orchResult, held, scrapeCalls,
                 outcomesSeen>>

\* one pass from the test of the while loop to the next await (of a scrape
\* or of waitForAvailableProxy) or to the return
Iterate ==
  /\ orchPc = "loop"
  /\ lastScrape' = "none"
  /\ lastRelease' = NoRelease
  /\ IF ~LoopCondition(attempt, lastError, triedProxies)
       THEN LeaveLoop("condition")
     ELSE IF CeilingExceeded(now, startTime)
       THEN LeaveLoop("ceiling")
     ELSE LET r == getNextProxy(proxies, currentIndex, activeWorkers, now)
          IN  IF r.ret.kind = "proxy"
              THEN StartScrape(r) /\ UNCHANGED waitStart
              ELSE StartWait(r)
  /\ UNCHANGED <<jobEndpoint, schedVars>>

\* StillWaiting with <= for <
StillWaitingAtTimeout(t, startT) == t - startT <= WaitTimeout

\* the test of the loop of waitForAvailableProxy(30000)
StillWaiting(t, startT) == t - startT < WaitTimeout

\* one pass of the loop of waitForAvailableProxy.  Before the timeout it
\* calls getNextProxy: with a proxy it returns it and the job continues its
\* loop (the proxy is neither used nor released), else it sleeps for the poll
\* interval.  At the timeout it returns null and the job leaves its loop.
Poll ==
  /\ orchPc = "waiting"
  /\ lastScrape' = "none"
  /\ lastRelease' = NoRelease
  /\ IF StillWaiting(now, waitStart)
     THEN LET r == getNextProxy(proxies, currentIndex, activeWorkers, now)
          IN  /\ proxies' = r.proxies
              /\ currentIndex' = r.currentIndex
              /\ activeWorkers' = r.activeWorkers
              /\ ret' = r.ret
              /\ IF r.ret.kind = "proxy"
                 THEN /\ orchPc' = "loop"
                      /\ held' = [held EXCEPT
                                    ![proxies[r.ret.idx].proxyId] = @ + 1]
                      /\ grants' = GrantAt(grants, proxies, r.ret.idx, now)
                      /\ now' = now
                 ELSE /\ orchPc' = "waiting"
                      /\ now' = now + PollInterval
                      /\ grants' = PruneGrants(grants, now + PollInterval)
                      /\ UNCHANGED held
              /\ UNCHANGED orchResult
     ELSE /\ orchPc' = "done"
          /\ orchResult' = Failure(lastError, attempt, triedProxies, "noProxy")
          /\ ret' = NoRet
          /\ UNCHANGED <<now, proxies, currentIndex, activeWorkers, grants,
                         held>>
  /\ UNCHANGED <<ticks, blacklistedEver, attempt, lastError, triedProxies,
                 startTime, jobProxy, scrapeCalls, outcomesSeen, waitStart>>
  /\ UNCHANGED <<jobEndpoint, schedVars>>

\* scrapeFlightsPlaywright settles after d ms: the proxy is released, and
\* the job returns or goes back to the test of the loop
ScrapeEnd ==
  /\ orchPc = "scraping"
  /\ \E d \in ScrapeTimes, outcome \in ScrapeOutcomes :
       LET t    == now + d
           rel  == ReleaseOutcome(outcome)
           ps   == releaseProxy(proxies, jobProxy, rel, t)
           next == AfterScrape(outcome, attempt)
       IN  /\ now' = t
           /\ proxies' = ps
           /\ activeWorkers' = Decrement(activeWorkers)
           /\ blacklistedEver' = blacklistedEver \cup BlacklistedEndpoints(ps)
           /\ grants' = PruneGrants(grants, t)
           /\ ret' = NoRet
           /\ lastScrape' = outcome
           /\ lastRelease' = [proxyId |-> jobProxy, outcome |-> rel]
           /\ held' = [held EXCEPT ![jobProxy] = @ - 1]
           /\ outcomesSeen' = outcomesSeen \cup {outcome}
           /\ lastError' = IF outcome = "success" THEN lastError ELSE outcome
           /\ jobProxy' = 0
           /\ orchPc' = next
           /\ orchResult' =
                IF next # "done" THEN orchResult
                ELSE IF outcome = "success"
                  THEN [kind |-> "success", proxyUsed |-> jobProxy,
                        attempts |-> attempt, via |-> "success"]
                ELSE Failure(outcome, attempt, triedProxies, "retries")
  /\ UNCHANGED <<ticks, currentIndex, attempt, triedProxies, startTime,
                 scrapeCalls, waitStart>>
  /\ UNCHANGED <<jobEndpoint, schedVars>>

\* a job at its first test of the loop, on a pool where other jobs may hold
\* workers and the second proxy may have been disabled
OrchInit ==
  /\ now = 1
  /\ ticks = 0
  /\ proxies \in {Construct(InitialProxies),
                  setProxyEnabled(Construct(InitialProxies), 2, FALSE)}
  /\ currentIndex \in 0..(Len(InitialProxies) - 1)
  /\ activeWorkers \in 0..maxWorkers
  /\ ret = NoRet
  /\ grants = [e \in Endpoints |-> <<>>]
  /\ blacklistedEver = {}
  /\ routesLen = 0
  /\ maxConcurrent = 1
  /\ SchedIdle
  /\ orchPc = "loop"
  /\ attempt = 0
  /\ lastError = "none"
  /\ triedProxies = {}
  /\ startTime = now
  /\ waitStart = 0
  /\ jobProxy = 0
  /\ jobEndpoint = 0
  /\ orchResult = [kind |-> "pending"]
  /\ held = [id \in 1..Len(InitialProxies) |-> 0]
  /\ scrapeCalls = 0
  /\ outcomesSeen = {}
  /\ lastScrape = "none"
  /\ lastRelease = NoRelease

vars == <<poolVars, schedVars, jobVars>>

\* the pool, with no batch to schedule
Init ==
  PoolInit /\ routesLen = 0 /\ maxConcurrent = 1 /\ SchedIdle /\ JobIdle

\* one batch, with the pool left alone
SchedNext ==
  \/ SchedStart
  \/ \E j \in 1..routesLen : TimerFire(j)
  \/ \E j \in 1..routesLen : Settle(j)
  \/ Resume
  \/ \E t \in Instants : Elapse(t)
  \/ BatchReturn

SchedSpec == SchedInit /\ [][SchedNext]_vars

\* the function is called, the continuation of its await runs once the race
\* is settled, and every call of processRoute eventually settles
SchedLiveSpec ==
  /\ SchedSpec
  /\ WF_vars(SchedStart)
  /\ WF_vars(Resume)
  /\ \A j \in 1..MaxRoutes : WF_vars(j <= routesLen /\ Settle(j))

\* one job of the orchestrator on the pool
OrchNext ==
  \/ Iterate
  \/ Poll
  \/ ScrapeEnd

OrchSpec == OrchInit /\ [][OrchNext]_vars

\* the job is scheduled as long as it has not returned
OrchLiveSpec == OrchSpec /\ WF_vars(OrchNext)

\* the pool operations acquire, release, setEnabled and resetStatistics
RateNext ==
  \/ Tick
  \/ Acquire
  \/ Release
  \/ SetEnabled
  \/ ResetStatistics

RateSpec == Init /\ [][RateNext]_vars

Next ==
  \/ Tick
  \/ Acquire
  \/ Release
  \/ ResetStatistics
  \/ SetEnabled
  \/ TestProxy
  \/ UpdateProxies

Spec == Init /\ [][Next]_vars

\* a pool of three proxies as constructed, the cursor read from the state
\* file being one of its positions
CapInit ==
  /\ now = 1
  /\ ticks = 0
  /\ proxies = Construct(ThreeProxies)
  /\ currentIndex \in 0..(Len(ThreeProxies) - 1)
  /\ activeWorkers = 0
  /\ ret = NoRet
  /\ grants = [e \in {ThreeProxies[i] : i \in 1..Len(ThreeProxies)} |-> <<>>]
  /\ blacklistedEver = {}
  /\ routesLen = 0
  /\ maxConcurrent = 1
  /\ SchedIdle
  /\ JobIdle

\* jobs that acquire and release on that pool while time passes
CapNext ==
  \/ Tick
  \/ Acquire
  \/ Release

CapSpec == CapInit /\ [][CapNext]_vars

\* a caller as scrapeFlightsWithDecodo: const proxy = getNextProxy(), kept
\* while the scrape runs
JobAcquire ==
  /\ jobProxy = 0
  /\ LET r == getNextProxy(proxies, currentIndex, activeWorkers, now)
     IN  /\ r.ret.kind = "proxy"
         /\ Capped(r.proxies)
         /\ proxies' = r.proxies
         /\ currentIndex' = r.currentIndex
         /\ activeWorkers' = r.activeWorkers
         /\ ret' = r.ret
         /\ jobProxy' = proxies[r.ret.idx].proxyId
         /\ jobEndpoint' = proxies[r.ret.idx].endpoint
  /\ lastRelease' = NoRelease
  /\ UNCHANGED <<now, ticks, grants, blacklistedEver>>
  /\ UNCHANGED <<orchPc, attempt, lastError, triedProxies, startTime,
                 waitStart, orchResult, held, scrapeCalls, outcomesSeen,
                 lastScrape>>
  /\ UNCHANGED schedVars

\* the caller's releaseProxy(proxy.proxyId, success, isPerimeterX) when the
\* scrape has ended
JobRelease ==
  /\ jobProxy # 0
  /\ \E outcome \in Outcomes :
       LET ps == releaseProxy(proxies, jobProxy, outcome, now)
       IN  /\ Capped(ps)
           /\ proxies' = ps
           /\ lastRelease' = [proxyId |-> jobProxy, outcome |-> outcome]
  /\ activeWorkers' = Decrement(activeWorkers)
  /\ ret' = NoRet
  /\ jobProxy' = 0
  /\ UNCHANGED <<now, ticks, currentIndex, grants, blacklistedEver>>
  /\ UNCHANGED <<orchPc, attempt, lastError, triedProxies, startTime,
                 waitStart, jobEndpoint, orchResult, held, scrapeCalls,
                 outcomesSeen, lastScrape>>
  /\ UNCHANGED schedVars

\* the proxy lists an administrator posts while jobs run
Reload == UpdateWith(ReloadLists \cup MergeLists, BOOLEAN)

\* one caller at a time acquires and releases while the list is reloaded
ReloadNext ==
  \/ JobAcquire
  \/ JobRelease
  \/ Reload

\* the pool as constructed, the cursor being one of its positions
MergeInit ==
  /\ now = 1
  /\ ticks = 0
  /\ proxies = Construct(InitialProxies)
  /\ currentIndex \in 0..(Len(InitialProxies) - 1)
  /\ activeWorkers = 0
  /\ ret = NoRet
  /\ grants = [e \in Endpoints \cup UNION {{l[i] : i \in 1..Len(l)} : l \in MergeLists}
                 |-> <<>>]
  /\ blacklistedEver = {}
  /\ routesLen = 0
  /\ maxConcurrent = 1
  /\ SchedIdle
  /\ JobIdle

\* lists are merged into the pool while it is used and administered
MergeNext ==
  \/ Acquire
  \/ Release
  \/ SetEnabled
  \/ Merge

MergeSpec == MergeInit /\ [][MergeNext]_vars

ReloadSpec == MergeInit /\ [][ReloadNext]_vars

SerialTick == Advance(MaxSerialTicks)

\* one caller at a time: every release is that of the grant getNextProxy
\* made after the release before; statistics are reset and time passes
SerialNext ==
  \/ JobAcquire
  \/ JobRelease
  \/ ResetStatistics
  \/ SerialTick

SerialSpec == MergeInit /\ [][SerialNext]_vars

----------------------------------------------------------------------------
(* Claims about the pool *)

Places == 1..Len(proxies)

\* a proxy is presently cooling down
Cooling(p) == p.cooldownUntil # NoCooldown /\ now < p.cooldownUntil

\* the step is releaseProxy with an anti-bot block on the proxy at place i:
\* its failure counter grows by one and its block history changes
BlockStep(i) ==
  /\ Len(proxies') = Len(proxies)
  /\ i \in Places
  /\ proxies'[i].failedRequests = proxies[i].failedRequests + 1
  /\ proxies'[i].perimeterXBlocks # proxies[i].perimeterXBlocks

\* the step is releaseProxy with outcome success on the proxy at place i:
\* its request counter grows by one in a step that is no getNextProxy
SuccessStep(i) ==
  /\ Len(proxies') = Len(proxies)
  /\ i \in Places
  /\ ret'.kind = "none"
  /\ proxies'[i].totalRequests = proxies[i].totalRequests + 1

\* C1: in every reachable pool state, under any interleaving of getNextProxy
\* and releaseProxy (also a release that matches no grant or names no proxy),
\* 0 <= activeWorkers <= maxWorkers
C1_ActiveWorkersBounded == 0 <= activeWorkers /\ activeWorkers <= maxWorkers

\* getNextProxy was refused at the worker cap
C1_Witness == activeWorkers = maxWorkers /\ ret.kind = "null"

\* C2: for every proxy the number of use-timestamps of the trailing 60 seconds
\* never exceeds maxUsesPerMinute
C2_UsesWithinLimit ==
  \A i \in Places :
    Len(Within(proxies[i].recentUses, now, OneMinute)) <= maxUsesPerMinute

\* C3: in the trailing 60 seconds no endpoint was granted more than
\* maxUsesPerMinute times, whatever acquire, release, setEnabled and
\* resetStatistics calls happened
C3_GrantsWithinLimit ==
  \A e \in Endpoints : Len(Within(grants[e], now, OneMinute)) <= maxUsesPerMinute

\* C4: getNextProxy never returns a proxy that is disabled, blacklisted or
\* presently cooling down
C4_GrantedEligible ==
  ret.kind = "proxy" =>
    /\ ~proxies[ret.idx].disabled
    /\ ~proxies[ret.idx].blacklisted
    /\ ~Cooling(proxies[ret.idx])

\* a proxy was granted while another proxy of the pool was cooling down
C4_Witness ==
  /\ ret.kind = "proxy"
  /\ \E j \in Places : j # ret.idx /\ Cooling(proxies[j])

\* C5: an anti-bot block that is the 1st, 2nd, 3rd or 4th of the rolling
\* 20-minute window sets cooldownLevel 0, 1, 2, 3 with cooldownUntil none,
\* now + 20 min, now + 2 h, now + 24 h; the 5th or a later one blacklists
C5_EscalationLadder ==
  [][\A i \in Places : BlockStep(i) =>
       LET p == proxies'[i]
           n == Len(p.perimeterXBlocks)
       IN  /\ \A k \in 1..n : p.perimeterXBlocks[k] > now - TwentyMinutes
           /\ n = 1 => p.cooldownLevel = 0 /\ p.cooldownUntil = NoCooldown
           /\ n = 2 => p.cooldownLevel = 1 /\ p.cooldownUntil = now + 1200000
           /\ n = 3 => p.cooldownLevel = 2 /\ p.cooldownUntil = now + 7200000
           /\ n = 4 => p.cooldownLevel = 3 /\ p.cooldownUntil = now + 86400000
           /\ n >= 5 => p.blacklisted]_vars

\* the fifth block of the window has just blacklisted a proxy
C5_Witness ==
  \E i \in Places :
    /\ proxies[i].blacklisted
    /\ Len(proxies[i].perimeterXBlocks) = 5
    /\ \A k \in 1..5 : proxies[i].perimeterXBlocks[k] = now

\* the number of recorded blocks of the 20 minutes before t
InWindow(blocks, t) ==
  Cardinality({k \in 1..Len(blocks) : blocks[k] > t - TwentyMinutes})

\* C6: the level set by an anti-bot block depends only on the number of
\* block timestamps of the last 20 minutes, the new one included; a block that
\* arrives when every earlier block is older yields level 0 and no cooldown
C6_RollingWindowOnly ==
  [][\A i \in Places : BlockStep(i) =>
       LET n == InWindow(proxies[i].perimeterXBlocks, now) + 1
           p == proxies'[i]
       IN  /\ p.cooldownLevel = (IF n >= 5 THEN 4 ELSE n - 1)
           /\ n = 1 => p.cooldownUntil = NoCooldown]_vars

\* a proxy blacklisted by five blocks earlier got one more block after the
\* window had passed: level 0, no cooldown
C6_Witness ==
  \E i \in Places :
    /\ proxies[i].blacklisted
    /\ proxies[i].perimeterXBlocks = <<now>>
    /\ proxies[i].cooldownLevel = 0
    /\ proxies[i].cooldownUntil = NoCooldown

\* C7: getNextProxy never returns an endpoint that was blacklisted before
C7_BlacklistPermanent ==
  ret.kind = "proxy" => proxies[ret.idx].endpoint \notin blacklistedEver

\* C8: a success release leaves a proxy that is not blacklisted with level 0,
\* no cooldown and an empty block history, and leaves blacklisted and
\* cooldownLevel of a blacklisted proxy unchanged
C8_SuccessResets ==
  [][\A i \in Places : SuccessStep(i) =>
       /\ ~proxies[i].blacklisted =>
            /\ proxies'[i].cooldownLevel = 0
            /\ proxies'[i].cooldownUntil = NoCooldown
            /\ proxies'[i].perimeterXBlocks = <<>>
       /\ proxies[i].blacklisted =>
            /\ proxies'[i].blacklisted
            /\ proxies'[i].cooldownLevel = proxies[i].cooldownLevel]_vars

----------------------------------------------------------------------------
(* Claims about the scheduler *)

Jobs == 1..routesLen

\* the jobs that have started executing and have not settled
InFlight == {j \in Jobs : jobState[j] = "running"}

\* C9: at every instant of a run of processRoutesConcurrently the number of
\* jobs that have started and not yet settled is at most the concurrency
\* limit, for every number of routes and every order of settling.
C9_InFlightWithinLimit == Cardinality(InFlight) <= maxConcurrent

\* C10: the promise of processRoutesConcurrently resolves only after every
\* one of the routes has been started and has settled; none is still waiting
\* for its start delay or running.
C10_ResolvesAfterAllSettled ==
  schedPc = "resolved" => \A j \in Jobs : jobState[j] = "settled"

\* C11: when a batch returns its result, stats.processed equals
\* stats.cached + stats.scraped + stats.failed and equals stats.total.
C11_StatsAddUp ==
  batchResult.kind = "returned" =>
    /\ batchResult.stats.processed =
         batchResult.stats.cached + batchResult.stats.scraped
           + batchResult.stats.failed
    /\ batchResult.stats.processed = batchResult.stats.total

\* C12: when a job of the batch has failed, the scheduler still starts and
\* completes every other job before it resolves.
C12_FailureDoesNotAbort ==
  (schedPc = "resolved" /\ stats.failed > 0) =>
    \A j \in Jobs : jobState[j] = "settled"

----------------------------------------------------------------------------
(* Claims about the orchestrator *)

\* the grants the job holds
HeldCount(h, ids) == Cardinality({<<id, k>> \in ids \X (1..(MAX_RETRIES + totalProxies)) : k <= h[id]})

\* C13: after an attempt ended in an anti-bot block the proxy is released
\* with outcome antiBotBlock, and the next scrape attempt of the job uses a
\* proxy that is not in its tried-set.
C13_BlockedTriesNewProxy ==
  [][/\ lastScrape' = Blocked =>
          lastRelease' = [proxyId |-> jobProxy, outcome |-> "antiBotBlock"]
     /\ (lastError = Blocked /\ orchPc = "loop" /\ orchPc' = "scraping") =>
          jobProxy' \notin triedProxies]_vars

\* C14: a job whose attempts all ended in anti-bot blocks has made at most
\* as many scrape attempts as there are proxies in the pool.
C14_BlockedAttemptsWithinPool ==
  (orchPc = "done" /\ outcomesSeen = {Blocked}) => scrapeCalls <= Len(proxies)

\* C15: a job that cannot obtain a proxy is not reported as failed before
\* maxWaitTime has elapsed since the job started.
C15_NoProxyWaitsUntilCeiling ==
  (orchResult.kind = "failure" /\ orchResult.via = "noProxy") =>
    now - startTime >= maxWaitTime

\* C16: at every instant the job holds at most one grant that it has not
\* released, grants of waitForAvailableProxy included.
C16_OneGrantAtATime == HeldCount(held, DOMAIN held) <= 1

\* C17: when a scrape succeeds the job releases the proxy of that attempt
\* once, with outcome success, and returns a success result in the same
\* step; a job that has returned acquires, scrapes and releases no more.
C17_SuccessReturnsAtOnce ==
  [][/\ lastScrape' = "success" =>
          /\ lastRelease' = [proxyId |-> jobProxy, outcome |-> "success"]
          /\ held' = [held EXCEPT ![jobProxy] = @ - 1]
          /\ activeWorkers' = Decrement(activeWorkers)
          /\ orchPc' = "done"
          /\ orchResult'.kind = "success"
     /\ orchPc = "done" =>
          UNCHANGED <<proxies, activeWorkers, held, scrapeCalls, attempt>>]_vars

\* a job that succeeded on a later attempt, after a failed one
C17_Witness ==
  /\ orchResult.kind = "success"
  /\ scrapeCalls >= 2
  /\ lastRelease.outcome = "success"

\* C18: a job whose scrapes failed only with errors other than the anti-bot
\* marker has called the scrape at most MAX_RETRIES times, and each such
\* failure is followed by a release with outcome genericFailure before any
\* other attempt starts.
C18_GenericFailuresBounded ==
  [][/\ outcomesSeen' \subseteq {"other"} => scrapeCalls' <= MAX_RETRIES
     /\ lastScrape' = "other" =>
          /\ lastRelease' = [proxyId |-> jobProxy, outcome |-> "genericFailure"]
          /\ held' = [held EXCEPT ![jobProxy] = @ - 1]
          /\ orchPc' # "scraping"]_vars

\* a job that gave up after MAX_RETRIES scrapes that failed with other errors
C18_Witness ==
  /\ orchPc = "done"
  /\ outcomesSeen = {"other"}
  /\ scrapeCalls = MAX_RETRIES
  /\ lastRelease.outcome = "genericFailure"

\* C19: no attempt begins once more than maxWaitTime has elapsed since the
\* job started, and every job returns.
C19_StopsAtCeiling ==
  /\ [][attempt' > attempt => now - startTime <= maxWaitTime]_vars
  /\ <>(orchPc = "done")

\* a job that left the loop at the wall-clock test
C19_Witness ==
  /\ orchPc = "done"
  /\ orchResult.via = "ceiling"
  /\ now - startTime > maxWaitTime

----------------------------------------------------------------------------
(* Claims about the pool, continued *)

\* C20: getNextProxy returns a proxy or null and never throws, in every
\* reachable state of the pool.
C20_AcquireNeverThrows == ret.kind # "throw"

----------------------------------------------------------------------------
(* Claims about the scheduler, continued *)

\* the jobs that wait for their start delay
Delayed == {j \in Jobs : jobState[j] = "delayed"}

\* C21: once the initial wave is under way and while routes remain queued,
\* the completion of any in-flight job, a delayed job of the initial wave
\* included, makes the scheduler start the next queued route with no delay:
\* the continuation that refills the free slot is scheduled by that
\* completion, without waiting for another in-flight job.
C21_CompletionStartsNext ==
  [][\A j \in Jobs :
       (/\ jobState[j] = "running"
        /\ jobState'[j] = "settled"
        /\ routeIndex < routesLen) => schedPc' = "resume"]_vars

\* C22: with more routes than the limit, from the moment every job of the
\* initial wave has started and while at least maxConcurrent routes remain
\* queued, exactly maxConcurrent jobs are in flight whenever the scheduler
\* waits for the next completion.
C22_FullWhileQueued ==
  (/\ routesLen > maxConcurrent
   /\ schedPc = "race"
   /\ Delayed = {}
   /\ routesLen - routeIndex >= maxConcurrent) =>
    Cardinality(InFlight) = maxConcurrent

\* the size of the initial wave
Wave == IF maxConcurrent <= routesLen THEN maxConcurrent ELSE routesLen

\* C23: the call gives a start to exactly the first min(maxConcurrent,
\* routes.length) routes before its first await; the first of them gets the
\* delay 0, each other one a delay d of its own with 1000 <= d < 5000 (ms),
\* and every route after the initial wave is started with delay 0.
C23_InitialWaveDelays ==
  /\ [][schedPc = "start" /\ schedPc' # "start" => routeIndex' = Wave]_vars
  /\ [](/\ Len(delays) = routeIndex
        /\ \A j \in 1..Len(delays) :
             /\ j = 1 => delays[j] = 0
             /\ (1 < j /\ j <= Wave) => (1000 <= delays[j] /\ delays[j] < 5000)
             /\ j > Wave => delays[j] = 0)

\* an initial wave of three routes whose two delayed routes drew the least
\* and the greatest delay, and a route started after the wave
C23_Witness ==
  /\ Wave = 3
  /\ Len(delays) > 3
  /\ delays[2] = 1000
  /\ delays[3] = 4999

\* the jobs that have reached their terminal transition
Settled == {j \in Jobs : jobState[j] = "settled"}

\* C25: in every state between the suspension points of a batch,
\* stats.processed equals stats.cached + stats.scraped + stats.failed, is the
\* number of jobs that have ended and is at most stats.total; the step in
\* which a job ends increments exactly one of cached, scraped and failed by
\* one together with processed, also when sending the progress event
\* fails, and no other step changes the counters.
C25_CountersInStep ==
  /\ [](/\ stats.processed = stats.cached + stats.scraped + stats.failed
        /\ stats.processed = Cardinality(Settled)
        /\ stats.processed <= stats.total)
  /\ [][IF Settled' # Settled
        THEN /\ stats'.processed = stats.processed + 1
             /\ \E outcome \in JobOutcomes :
                  stats' = [stats EXCEPT ![outcome] = @ + 1,
                                         !.processed = @ + 1]
        ELSE stats' = stats]_vars

\* a job has ended while the send of its progress event failed, after two
\* others that ended in two other ways
C25_Witness ==
  /\ sendFailed
  /\ stats.processed = 3
  /\ stats.cached = 1
  /\ stats.scraped = 1
  /\ stats.failed = 1

----------------------------------------------------------------------------
(* Claims about the pool, continued *)

\* proxy p can be granted at time t: not disabled, blacklisted or cooling,
\* and fewer than maxUsesPerMinute uses in the trailing minute
Free(p, t) ==
  /\ ~p.disabled
  /\ ~p.blacklisted
  /\ ~(p.cooldownUntil # NoCooldown /\ t < p.cooldownUntil)
  /\ Cardinality({k \in 1..Len(p.recentUses) :
                    p.recentUses[k] > t - OneMinute}) < maxUsesPerMinute

\* C24: on a pool of 3 proxies with maxUsesPerMinute = 1 and maxWorkers = 2,
\* an acquisition made while fewer than 2 grants are outstanding and a proxy
\* is free succeeds at once, with a proxy that was not granted in the
\* trailing minute (so two acquisitions made together get two distinct
\* proxies); an acquisition made while activeWorkers = 2 gets no proxy and
\* changes nothing, so the third of three jobs is granted a proxy only after
\* a release.
C24_ThirdWaitsForRelease ==
  [][ret'.kind # "none" =>
       /\ activeWorkers = maxWorkers =>
            /\ ret'.kind = "null"
            /\ UNCHANGED <<proxies, activeWorkers, currentIndex>>
       /\ (/\ activeWorkers < maxWorkers
           /\ \E i \in 1..Len(proxies) : Free(proxies[i], now)) =>
            ret'.kind = "proxy"
       /\ ret'.kind = "proxy" =>
            /\ activeWorkers < maxWorkers
            /\ activeWorkers' = activeWorkers + 1
            /\ Free(proxies[ret'.idx], now)
            /\ Within(grants[proxies[ret'.idx].endpoint], now, OneMinute) = <<>>]_vars

\* three acquisitions made together on the fresh pool: two distinct proxies
\* were granted at this instant, and the third acquisition got null
C24_Witness ==
  /\ ticks = 0
  /\ activeWorkers = maxWorkers
  /\ ret.kind = "null"
  /\ Cardinality({i \in 1..Len(proxies) :
                    /\ proxies[i].recentUses = <<now>>
                    /\ proxies[i].totalRequests = 1
                    /\ proxies[i].failedRequests = 0}) = 2
  /\ \E i \in 1..Len(proxies) : Free(proxies[i], now)

\* C26: a release with outcome genericFailure adds one to failedRequests of
\* the released proxy and takes one from activeWorkers, which stays at 0 when
\* it is 0; the block history, cooldownLevel, cooldownUntil, blacklisted,
\* disabled and the use timestamps of that proxy, the other proxies and the
\* cursor are left as they were.
C26_GenericFailureFrame ==
  /\ [](activeWorkers >= 0)
  /\ [][\A proxyId \in CallerIds :
          (/\ proxies' = releaseProxy(proxies, proxyId, "genericFailure", now)
           /\ proxies' # proxies) =>
            /\ activeWorkers' =
                 (IF activeWorkers = 0 THEN 0 ELSE activeWorkers - 1)
            /\ currentIndex' = currentIndex
            /\ Len(proxies') = Len(proxies)
            /\ \E i \in 1..Len(proxies) :
                 /\ proxies[i].proxyId = proxyId
                 /\ proxies'[i].failedRequests = proxies[i].failedRequests + 1
                 /\ proxies'[i].perimeterXBlocks = proxies[i].perimeterXBlocks
                 /\ proxies'[i].cooldownLevel = proxies[i].cooldownLevel
                 /\ proxies'[i].cooldownUntil = proxies[i].cooldownUntil
                 /\ proxies'[i].blacklisted = proxies[i].blacklisted
                 /\ proxies'[i].disabled = proxies[i].disabled
                 /\ proxies'[i].recentUses = proxies[i].recentUses
                 /\ proxies'[i].totalRequests = proxies[i].totalRequests
                 /\ proxies'[i].proxyId = proxies[i].proxyId
                 /\ proxies'[i].endpoint = proxies[i].endpoint
                 /\ \A k \in 1..Len(proxies) :
                      k # i => proxies'[k] = proxies[k]]_vars

\* a disabled proxy with one use timestamp and no block was released with
\* genericFailure, and no grant is outstanding
C26_Witness ==
  /\ activeWorkers = 0
  /\ proxies[1].disabled
  /\ proxies[1].failedRequests = 1
  /\ proxies[1].perimeterXBlocks = <<>>
  /\ Len(proxies[1].recentUses) = 1
  /\ proxies[1].totalRequests = 1

\* C27: setProxyEnabled changes nothing of the pool but the disabled flag of
\* the proxy named: blacklisted, cooldownUntil, cooldownLevel, the block
\* history, the use timestamps and counters of that proxy, the other proxies
\* and activeWorkers are left as they were; a proxy that is blacklisted or in
\* cooldown is therefore not granted by getNextProxy, enabled or not.
C27_SetEnabledFrame ==
  [][/\ \A proxyId \in AdminIds, enabled \in BOOLEAN :
          (/\ proxies' = setProxyEnabled(proxies, proxyId, enabled)
           /\ proxies' # proxies) =>
            /\ activeWorkers' = activeWorkers
            /\ Len(proxies') = Len(proxies)
            /\ \E i \in 1..Len(proxies) :
                 /\ proxies[i].proxyId = proxyId
                 /\ proxies'[i] = [proxies[i] EXCEPT !.disabled = ~enabled]
                 /\ \A k \in 1..Len(proxies) :
                      k # i => proxies'[k] = proxies[k]
     /\ ret'.kind = "proxy" =>
          /\ ~proxies[ret'.idx].blacklisted
          /\ ~(/\ proxies[ret'.idx].cooldownUntil # NoCooldown
               /\ now < proxies[ret'.idx].cooldownUntil)]_vars

\* a proxy in cooldown is enabled, and so is the other proxy, yet an
\* acquisition below the worker cap got the other proxy or none
C27_Witness ==
  /\ ~proxies[1].disabled
  /\ proxies[1].cooldownUntil > now
  /\ proxies[1].cooldownLevel > 0
  /\ activeWorkers <= 1
  /\ ret.kind \in {"proxy", "null"}

\* the step replaces the pool by new proxies (updateProxies with replace)
Replaced ==
  \E list \in ReloadLists :
    proxies' = updateProxies(proxies, currentIndex, list, TRUE).proxies

\* C28: a failing connectivity test leaves the tested proxy disabled, and a
\* proxy of the pool goes from disabled to enabled only in a step that is
\* setProxyEnabled(id, true) or a passing test of that proxy: no acquisition,
\* release, advance of the clock or merging updateProxies enables it.
C28_EnabledOnlyByAdmin ==
  /\ [](\A proxyId \in AdminIds :
          Find(proxies, proxyId) # 0 =>
            testProxy(proxies, proxyId, FALSE)[Find(proxies, proxyId)].disabled)
  /\ [][\A i \in 1..Len(proxies) :
          (/\ proxies[i].disabled
           /\ ~Replaced
           /\ i <= Len(proxies')
           /\ ~proxies'[i].disabled) =>
            /\ proxies[i].proxyId \in AdminIds
            /\ proxies' = [proxies EXCEPT ![i].disabled = FALSE]
            /\ UNCHANGED <<now, activeWorkers, currentIndex, grants>>]_vars

\* a proxy that was used and released with a failure is disabled, and the
\* clock has advanced
C28_Witness ==
  /\ proxies[1].disabled
  /\ proxies[1].totalRequests > 0
  /\ proxies[1].failedRequests > 0
  /\ ticks > 0

\* C29: a merging updateProxies keeps every proxy of the pool in its place
\* with its id, counters, use timestamps, cooldown, blacklist and disabled
\* state, appends only proxies whose host:port is not yet in the pool, each
\* once, and leaves activeWorkers unchanged.
C29_MergeKeepsAndAppendsNew ==
  [][Len(proxies') # Len(proxies) =>
       /\ activeWorkers' = activeWorkers
       /\ Len(proxies') > Len(proxies)
       /\ \A i \in 1..Len(proxies) : proxies'[i] = proxies[i]
       /\ \A k \in (Len(proxies) + 1)..Len(proxies') :
            /\ \A i \in 1..Len(proxies) :
                 proxies[i].endpoint # proxies'[k].endpoint
            /\ \A l \in (Len(proxies) + 1)..Len(proxies') :
                 l # k => proxies'[l].endpoint # proxies'[k].endpoint]_vars

----------------------------------------------------------------------------
(* Claims about the orchestrator, continued *)

\* an acquisition made now succeeds: a grant is left under the worker cap
\* and a proxy is free
CanAcquire ==
  /\ activeWorkers < maxWorkers
  /\ \E i \in 1..Len(proxies) : Free(proxies[i], now)

\* C30: waitForAvailableProxy(timeoutMs) polls getNextProxy every 500 ms: it
\* returns a proxy at the first poll that succeeds, without sleeping again;
\* it returns null when timeoutMs has elapsed with no poll successful, and
\* not before; the pool changes during the wait only as the getNextProxy
\* call of each poll changes it, and not at all at the timeout.
C30_WaitPollsUntilTimeout ==
  /\ [](orchPc = "waiting" => now - waitStart <= WaitTimeout)
  /\ [][orchPc = "waiting" =>
          IF now - waitStart < WaitTimeout
          THEN LET r == getNextProxy(proxies, currentIndex, activeWorkers, now)
               IN  /\ proxies' = r.proxies
                   /\ currentIndex' = r.currentIndex
                   /\ activeWorkers' = r.activeWorkers
                   /\ IF CanAcquire
                      THEN /\ ret'.kind = "proxy"
                           /\ orchPc' = "loop"
                           /\ now' = now
                           /\ activeWorkers' = activeWorkers + 1
                      ELSE /\ ret'.kind = "null"
                           /\ orchPc' = "waiting"
                           /\ now' = now + PollInterval
                           /\ activeWorkers' = activeWorkers
          ELSE /\ orchPc' = "done"
               /\ orchResult'.via = "noProxy"
               /\ UNCHANGED <<now, proxies, currentIndex, activeWorkers>>]_vars

\* a wait that timed out after exactly timeoutMs, in a job that had got a
\* proxy from an earlier wait after some polls
C30_Witness ==
  /\ orchPc = "done"
  /\ orchResult.via = "noProxy"
  /\ now - waitStart = WaitTimeout
  /\ \E id \in DOMAIN held : held[id] > 0

\* C31: every grant the job obtained, from getNextProxy or from
\* waitForAvailableProxy, has been released when the job returns: a job that
\* has returned holds no grant, so its grants no longer count in
\* activeWorkers.
C31_AllGrantsReleased ==
  orchPc = "done" => \A id \in DOMAIN held : held[id] = 0

----------------------------------------------------------------------------
(* Claims about the pool under reloads *)

\* C32: the release a caller issues for its grant changes the counters and
\* the escalation state of the proxy with the endpoint (host:port) that was
\* granted, and of no proxy with another endpoint, also when updateProxies
\* ran between the grant and the release.
C32_ReleaseHitsGrantedEndpoint ==
  [][(jobProxy # 0 /\ jobProxy' = 0) =>
       \A i \in 1..Len(proxies) :
         proxies'[i] # proxies[i] => proxies[i].endpoint = jobEndpoint]_vars

\* C33: in every reachable state of the pool the proxy ids are pairwise
\* distinct, after construction and after every updateProxies, merging or
\* replacing.
C33_IdsDistinct ==
  \A i, j \in 1..Len(proxies) :
    i # j => proxies[i].proxyId # proxies[j].proxyId

\* C34: in every reachable state of the pool the rotation cursor is a
\* position of the list, 0 <= currentIndex < number of proxies, also right
\* after a construction that read the cursor an earlier run with another
\* pool size had saved, and after updateProxies.
C34_CursorValid == 0 <= currentIndex /\ currentIndex < Len(proxies)

----------------------------------------------------------------------------
(* Claims about the escalation state *)

\* C35: for every proxy in every reachable state, blacklisted is true
\* exactly when cooldownLevel is 4, after any sequence of releases with
\* outcome antiBotBlock or success at any times.
C35_BlacklistedIffLevelFour ==
  \A i \in 1..Len(proxies) :
    proxies[i].blacklisted <=> proxies[i].cooldownLevel = 4

\* C36: when no proxy ever has two grants outstanding and every release is
\* that of a grant made by getNextProxy after the release before, the
\* cooldownLevel of a proxy never exceeds 1 and no proxy is blacklisted.
C36_SerialGrantsStayLow ==
  \A i \in 1..Len(proxies) :
    /\ proxies[i].cooldownLevel <= 1
    /\ ~proxies[i].blacklisted

\* a proxy that reached cooldown level 1 is granted again, its cooldown
\* being over
C36_Witness ==
  /\ jobProxy = 1
  /\ proxies[1].cooldownLevel = 1
  /\ Len(proxies[1].perimeterXBlocks) = 2
  /\ now >= proxies[1].cooldownUntil

----------------------------------------------------------------------------
(* Claims about the statistics *)

\* C37: for every proxy in every reachable state failedRequests is at most
\* totalRequests, under any interleaving of getNextProxy, releaseProxy of the
\* grants and resetStatistics while a job holds a grant.
C37_FailedWithinTotal ==
  \A i \in 1..Len(proxies) :
    proxies[i].failedRequests <= proxies[i].totalRequests

----------------------------------------------------------------------------
(* Claims about the start of the jobs *)

\* C38: in a run of processRoutesConcurrently no job other than the first
\* begins executing earlier than 1000 ms after the call, whatever the number
\* of routes, maxConcurrent and the durations of the jobs.
C38_LaterJobsAfterOneSecond ==
  [][\A j \in 2..routesLen :
       (jobState[j] # "running" /\ jobState'[j] = "running") =>
         elapsed' >= 1000]_vars

C40_EventuallyResolves == <>(schedPc = "resolved")

\* C40 witness: a run with more routes than maxConcurrent has resolved with
\* every job settled
C40_Witness ==
  /\ schedPc = "resolved"
  /\ routesLen > maxConcurrent
  /\ \A j \in 1..routesLen : jobState[j] = "settled"

====
